---- MODULE Spec2Model ----
(***************************************************************************)
(* A model of the Mini RAG backend (backend/app): the text chunker, the    *)
(* upload (ingest) handler, the retrieve-and-rerank step, and the answer   *)
(* generation with citation extraction.                                    *)
(*                                                                         *)
(* Strings that the chunker handles are kept run-length encoded: a string  *)
(* is a sequence of runs [c |-> character, n |-> repeat count] in which    *)
(* neighbouring runs hold different characters.  This keeps the real       *)
(* window size (1000) and overlap (150) of the chunker in the model.       *)
(* Answer texts, which the citation pattern scans, are plain sequences of  *)
(* one-character strings.                                                  *)
(***************************************************************************)
EXTENDS Integers, Sequences, FiniteSets, TLC

VARIABLES
    \* ---- ChunkingService.chunk_text (one call) ----
    text,           \* the raw input text (run-length encoded)
    cleaned_text,   \* " ".join(text.split())
    start,          \* start of the current window
    chunk_num,      \* number of chunks emitted so far
    chunks,         \* the chunk list built so far
    windows,        \* history: the [lo, hi) slice of every loop iteration
    chunk_pc,       \* "entry" | "loop" | "done"
    \* ---- DocumentRoutes.upload_document (one request) ----
    upload,         \* the request: [file, text, title]
    up_chunks,      \* the chunks chunk_text returned
    up_next,        \* position in the for-loop of _store_chunks (1-based)
    stored_count,   \* _store_chunks' counter
    index,          \* the vector index: the set of stored vectors
    up_pc,          \* "entry" | "store" | "ok" | "error" | "hung"
    up_response,    \* the response or the HTTP error of the request
    up_calls,       \* history: the embed and upsert calls made, in order
    \* ---- DocumentRoutes.query_documents (one request) ----
    request,        \* [top_k, rerank_top_k]
    cohere_client,  \* TRUE when a reranker is configured
    corpus,         \* number of vectors the index holds for this query
    documents,      \* the candidate list of retrieve_and_rerank
    retrieval,      \* the RetrievalResult, or None
    llm_response,   \* the LLMResponse of generate_answer, or None
    q_response,     \* the QueryResponse or the HTTP error, or None
    q_pc,           \* "entry" | "embedded" | "searched" | "retrieved" |
                    \* "generated" | "done"
    calls,          \* history: the external services called, in order
    rerank_ok,      \* history: "none" | "skipped" | "ok" | "failed"
    rerank_results, \* history: the results the reranker returned, or None
    llm_fault,      \* history: "none" | "raise" | "malformed"
    elapsed,        \* history: the durations measured, by stage
    \* ---- LLMService._extract_citations (one call) ----
    answer_text,    \* the answer handed to _extract_citations
    context_documents, \* the context list handed to it
    citations,      \* its result, or None
    cite_pc,        \* "entry" | "done"
    \* ---- LLMService._estimate_token_usage / _estimate_cost (calls) ----
    est_prompt,     \* len(prompt), the same in every call
    est_ties,       \* the exact costs that round(.., 6) rounds up from a tie
    estimates,      \* history: [response_len, token_usage, estimated_cost]
    est_pc          \* "ready"

chunk_vars == <<text, cleaned_text, start, chunk_num, chunks, windows, chunk_pc>>
upload_vars == <<upload, up_chunks, up_next, stored_count, index, up_pc, up_response,
                 up_calls>>
query_vars == <<request, cohere_client, corpus, documents, retrieval, llm_response,
                q_response, q_pc, calls, rerank_ok, rerank_results, llm_fault,
                elapsed>>
cite_vars == <<answer_text, context_documents, citations, cite_pc>>
cost_vars == <<est_prompt, est_ties, estimates, est_pc>>
vars == <<chunk_vars, upload_vars, query_vars, cite_vars, cost_vars>>

\* Optional values: None, or Some(x) whose value is Get(Some(x)).
None == <<>>
Some(x) == <<x>>
Get(o) == o[1]

(***************************************************************************)
(* Bounds of the model.                                                    *)
(***************************************************************************)
MaxRuns == 3        \* runs in a raw input text
MaxIter == 12       \* iterations of the chunker's loop that are explored
MaxDocs == 2        \* vectors in the index at query time
MaxResults == 2     \* results in a reranker response
MaxSegs == 3        \* pieces an answer text is assembled from
MaxCompletionLen == 48  \* characters of a completion whose cost is estimated

(***************************************************************************)
(* Program constants.                                                      *)
(***************************************************************************)
chunk_size == 1000
chunk_overlap == 150
SnippetLen == 150
InputRate == 75         \* (1 / 1000) * 0.000075 dollars, in 10^-9 dollars
OutputRate == 300       \* (1 / 1000) * 0.0003 dollars, in 10^-9 dollars
RoundingUnit == 1000    \* round(.., 6): 10^-6 dollars, in 10^-9 dollars

(***************************************************************************)
(* Python strings, run-length encoded.                                     *)
(***************************************************************************)
Whitespace == {" ", "\n"}

RECURSIVE StrLen(_)
StrLen(s) == IF s = <<>> THEN 0 ELSE s[1].n + StrLen(Tail(s))

\* s + t
Concat(s, t) ==
    IF s = <<>> THEN t
    ELSE IF t = <<>> THEN s
    ELSE IF s[Len(s)].c = t[1].c
         THEN SubSeq(s, 1, Len(s) - 1)
              \o <<[c |-> t[1].c, n |-> s[Len(s)].n + t[1].n]>>
              \o Tail(t)
         ELSE s \o t

\* s[i], for 0 <= i < len(s)
RECURSIVE CharAt(_, _)
CharAt(s, i) == IF i < s[1].n THEN s[1].c ELSE CharAt(Tail(s), i - s[1].n)

\* the index of the first character of the run of equal characters holding s[i]
RECURSIVE RunStart(_, _)
RunStart(s, i) == IF i < s[1].n THEN 0 ELSE s[1].n + RunStart(Tail(s), i - s[1].n)

\* s[:k], for k >= 0
RECURSIVE Take(_, _)
Take(s, k) ==
    IF k <= 0 \/ s = <<>> THEN <<>>
    ELSE IF k < s[1].n THEN <<[c |-> s[1].c, n |-> k]>>
    ELSE <<s[1]>> \o Take(Tail(s), k - s[1].n)

\* s[k:], for k >= 0
RECURSIVE Drop(_, _)
Drop(s, k) ==
    IF k <= 0 \/ s = <<>> THEN s
    ELSE IF k < s[1].n THEN <<[c |-> s[1].c, n |-> s[1].n - k]>> \o Tail(s)
    ELSE Drop(Tail(s), k - s[1].n)

\* s[lo:hi], for 0 <= lo and 0 <= hi (hi beyond the end is clamped)
Slice(s, lo, hi) == IF hi <= lo THEN <<>> ELSE Take(Drop(s, lo), hi - lo)

RECURSIVE LStrip(_)
LStrip(s) == IF s # <<>> /\ s[1].c \in Whitespace THEN LStrip(Tail(s)) ELSE s

RECURSIVE RStrip(_)
RStrip(s) ==
    IF s # <<>> /\ s[Len(s)].c \in Whitespace
    THEN RStrip(SubSeq(s, 1, Len(s) - 1))
    ELSE s

\* s.strip()
Strip(s) == RStrip(LStrip(s))

\* s.split(): the maximal runs of non-whitespace characters, in order.
\* word is the word being read (<<>> when between words).
RECURSIVE SplitFrom(_, _)
SplitFrom(s, word) ==
    IF s = <<>> THEN (IF word = <<>> THEN <<>> ELSE <<word>>)
    ELSE IF s[1].c \in Whitespace
         THEN (IF word = <<>> THEN <<>> ELSE <<word>>) \o SplitFrom(Tail(s), <<>>)
         ELSE SplitFrom(Tail(s), Concat(word, <<s[1]>>))

Split(s) == SplitFrom(s, <<>>)

\* sep.join(words)
RECURSIVE Join(_, _)
Join(sep, words) ==
    IF words = <<>> THEN <<>>
    ELSE IF Len(words) = 1 THEN words[1]
    ELSE Concat(Concat(words[1], sep), Join(sep, Tail(words)))

Space == <<[c |-> " ", n |-> 1]>>

\* cleaned_text = " ".join(text.split())
CleanText(t) == Join(Space, Split(t))

(***************************************************************************)
(* ChunkingService.chunk_text                                              *)
(***************************************************************************)
Max(a, b) == IF a >= b THEN a ELSE b
Min(a, b) == IF a <= b THEN a ELSE b

\* while end > start and cleaned_text[end] != ' ': end -= 1
\* Over a run of equal non-space characters the loop decrements end down to
\* the character before the run, or to start: one step here per run.
RECURSIVE WalkLeft(_, _, _)
WalkLeft(ct, st, end) ==
    IF end > st /\ CharAt(ct, end) # " "
    THEN WalkLeft(ct, st, Max(st, RunStart(ct, end) - 1))
    ELSE end

\* A boundary that is never walked back to a space.
WindowEndUnadjusted(ct, st) == st + chunk_size

\* The right boundary of the window that starts at st.
WindowEnd(ct, st) ==
    LET end == st + chunk_size IN
    IF end < StrLen(ct)
    THEN LET e == WalkLeft(ct, st, end) IN
         IF e = st THEN st + chunk_size ELSE e
    ELSE end

\* A slip of sign: the next window starts an overlap after the end.
NextStartSkips(end) == end + chunk_overlap

\* start = end - self.chunk_overlap; if start < 0: start = end
NextStart(end) ==
    IF end - chunk_overlap < 0 THEN end ELSE end - chunk_overlap

\* f"{source}_{chunk_num}_{uuid.uuid4().hex[:8]}"
ChunkId(source, num, hex) == <<source, num, hex>>

TextChunk(id, content, metadata) ==
    [id |-> id, content |-> content, metadata |-> metadata]

\* One iteration of the while loop, from the loop state st = [start, chunk_num,
\* chunks]; hex is the random part of the chunk id.
ChunkLoopBody(ct, st, source, title, section, hex) ==
    LET end == WindowEnd(ct, st.start)
        piece == Strip(Slice(ct, st.start, end))
        metadata == [source |-> source, title |-> title, section |-> section,
                     position |-> st.chunk_num]
    IN  [start |-> NextStart(end),
         chunk_num |-> IF piece # <<>> THEN st.chunk_num + 1 ELSE st.chunk_num,
         chunks |-> IF piece # <<>>
                    THEN Append(st.chunks,
                                TextChunk(ChunkId(source, st.chunk_num, hex),
                                          piece, metadata))
                    ELSE st.chunks,
         end |-> end,
         emitted |-> piece # <<>>]

\* The random hexadecimal suffixes of chunk ids that the model draws from.
UuidHex == {"8f3a91c2"}

Chars == {"a", "b", " ", "\n"}
RunLens == {1, 100, 500, 900, 2000}
Runs == [c : Chars, n : RunLens]

\* Every text of at most k runs (neighbouring runs hold different characters).
RECURSIVE TextsOfRuns(_)
TextsOfRuns(k) ==
    IF k = 0 THEN {<<>>}
    ELSE LET shorter == TextsOfRuns(k - 1)
             longest == {s \in shorter : Len(s) = k - 1}
             ext == {p \in longest \X Runs :
                        p[1] = <<>> \/ p[1][Len(p[1])].c # p[2].c}
         IN  shorter \cup {Append(p[1], p[2]) : p \in ext}

RawTexts == TextsOfRuns(MaxRuns)

ChunkIdle ==
    /\ text = <<>>
    /\ cleaned_text = <<>>
    /\ start = 0
    /\ chunk_num = 0
    /\ chunks = <<>>
    /\ windows = <<>>
    /\ chunk_pc = "idle"

\* lines 25-30: clean the text, start at 0 with no chunk.
ChunkEnter ==
    /\ chunk_pc = "entry"
    /\ cleaned_text' = CleanText(text)
    /\ start' = 0
    /\ chunk_num' = 0
    /\ chunks' = <<>>
    /\ chunk_pc' = "loop"
    /\ UNCHANGED <<text, windows>>

\* lines 32-64: one iteration of the while loop.
ChunkLoop ==
    /\ chunk_pc = "loop"
    /\ start < StrLen(cleaned_text)
    /\ Len(windows) < MaxIter
    /\ \E hex \in UuidHex :
         LET st == [start |-> start, chunk_num |-> chunk_num, chunks |-> chunks]
             nx == ChunkLoopBody(cleaned_text, st, "unknown", "Untitled", "main", hex)
         IN  /\ start' = nx.start
             /\ chunk_num' = nx.chunk_num
             /\ chunks' = nx.chunks
             /\ windows' = Append(windows, [lo |-> start, hi |-> nx.end,
                                            emitted |-> nx.emitted])
    /\ UNCHANGED <<text, cleaned_text, chunk_pc>>

\* lines 32, 66-67: the loop condition fails and the chunk list is returned.
ChunkReturn ==
    /\ chunk_pc = "loop"
    /\ ~(start < StrLen(cleaned_text))
    /\ chunk_pc' = "done"
    /\ UNCHANGED <<text, cleaned_text, start, chunk_num, chunks, windows>>

NextChunk ==
    \/ ChunkEnter /\ UNCHANGED <<upload_vars, query_vars, cite_vars, cost_vars>>
    \/ ChunkLoop /\ UNCHANGED <<upload_vars, query_vars, cite_vars, cost_vars>>
    \/ ChunkReturn /\ UNCHANGED <<upload_vars, query_vars, cite_vars, cost_vars>>

\* No duration has been measured yet (-1 stands for "not measured").
NotMeasured == [retrieval |-> -1, rerank |-> -1, generation |-> -1]

UploadIdle ==
    /\ upload = None
    /\ up_chunks = <<>>
    /\ up_next = 1
    /\ stored_count = 0
    /\ index = {}
    /\ up_pc = "idle"
    /\ up_response = None
    /\ up_calls = <<>>

QueryIdle ==
    /\ request = None
    /\ cohere_client = FALSE
    /\ corpus = 0
    /\ documents = <<>>
    /\ retrieval = None
    /\ llm_response = None
    /\ q_response = None
    /\ q_pc = "idle"
    /\ calls = <<>>
    /\ rerank_ok = "none"
    /\ rerank_results = None
    /\ llm_fault = "none"
    /\ elapsed = NotMeasured

CiteIdle ==
    /\ answer_text = <<>>
    /\ context_documents = <<>>
    /\ citations = None
    /\ cite_pc = "idle"

CostIdle ==
    /\ est_prompt = 0
    /\ est_ties = {}
    /\ estimates = <<>>
    /\ est_pc = "idle"

InitChunk ==
    /\ text \in RawTexts
    /\ cleaned_text = <<>>
    /\ start = 0
    /\ chunk_num = 0
    /\ chunks = <<>>
    /\ windows = <<>>
    /\ chunk_pc = "entry"
    /\ UploadIdle /\ QueryIdle /\ CiteIdle /\ CostIdle

SpecChunk == InitChunk /\ [][NextChunk]_vars

(***************************************************************************)
(* DocumentRoutes.upload_document                                          *)
(***************************************************************************)

\* chunk_text as a whole: the loop run from the state st for at most fuel
\* iterations.  returned is FALSE when the loop is still running after them.
RECURSIVE RunChunkLoop(_, _, _, _, _, _, _)
RunChunkLoop(ct, st, source, title, section, hex, fuel) ==
    IF ~(st.start < StrLen(ct)) THEN [returned |-> TRUE, chunks |-> st.chunks]
    ELSE IF fuel = 0 THEN [returned |-> FALSE, chunks |-> st.chunks]
    ELSE LET nx == ChunkLoopBody(ct, st, source, title, section, hex) IN
         RunChunkLoop(ct, [start |-> nx.start, chunk_num |-> nx.chunk_num,
                           chunks |-> nx.chunks],
                      source, title, section, hex, fuel - 1)

ChunkText(t, source, title, section, hex) ==
    RunChunkLoop(CleanText(t), [start |-> 0, chunk_num |-> 0, chunks |-> <<>>],
                 source, title, section, hex, MaxIter)

\* int(os.getenv("MAX_FILE_SIZE_MB", 10)) * 1024 * 1024
MaxFileSize == 10 * 1024 * 1024

HTTPException(status, detail) == [status |-> status, detail |-> detail]

\* _extract_pdf_text: fitz fails on a malformed file; the HTTPException raised
\* for an empty text is caught by the same except clause and replaced.
ExtractPdfText(body) ==
    IF ~body.wellformed \/ Strip(body.text) = <<>>
    THEN [error |-> Some(HTTPException(400, "Unable to process PDF file"))]
    ELSE [error |-> None, text |-> body.text]

\* _extract_text_file: UTF-8 first, and latin-1 decodes every byte string, so
\* the final HTTPException(400) is never raised.
ExtractTextFile(body) == [error |-> None, text |-> body.text]

\* file.filename.lower().endswith('.pdf')
IsPdf(name) == name = "doc.pdf"

\* _extract_text: (text_content, source), or the HTTPException raised.
ExtractText(file, txt) ==
    IF txt # None /\ Get(txt) # <<>>
    THEN [error |-> None, text |-> Get(txt), source |-> "text_input"]
    ELSE IF file = None
    THEN [error |-> Some(HTTPException(400, "Either file or text must be provided"))]
    ELSE IF Get(file).size > MaxFileSize
    THEN [error |-> Some(HTTPException(413, "File size exceeds maximum allowed size"))]
    ELSE LET f == Get(file)
             got == IF f.filename # None /\ IsPdf(Get(f.filename))
                    THEN ExtractPdfText(f.body)
                    ELSE ExtractTextFile(f.body)
         IN  IF got.error # None THEN got
             ELSE [error |-> None, text |-> got.text,
                   source |-> IF f.filename # None THEN Get(f.filename)
                              ELSE "uploaded_file"]

\* EmbeddingService._clean_text
max_chars == 2048 * 4
EmbeddingCleanText(t) ==
    LET cleaned == CleanText(t) IN
    IF StrLen(cleaned) > max_chars THEN Slice(cleaned, 0, max_chars) ELSE cleaned

\* The vector the embedding model returns for a text: a function of the
\* cleaned text and of the task type.
Embedding(t, task_type) == <<task_type, EmbeddingCleanText(t)>>

\* An upsert that replaces every vector of the same source document.
UpsertReplacesSource(idx, doc_id, embedding, metadata, content) ==
    {v \in idx : v.metadata.source # metadata.source}
    \cup {[id |-> doc_id, values |-> embedding,
           metadata |-> [source |-> metadata.source, title |-> metadata.title,
                         section |-> metadata.section,
                         position |-> metadata.position, content |-> content]]}

\* VectorStoreService.upsert_document: the vector replaces one of the same id.
Upsert(idx, doc_id, embedding, metadata, content) ==
    {v \in idx : v.id # doc_id}
    \cup {[id |-> doc_id, values |-> embedding,
           metadata |-> [source |-> metadata.source, title |-> metadata.title,
                         section |-> metadata.section,
                         position |-> metadata.position, content |-> content]]}

\* What the index holds before the request: one vector of an earlier upload.
PriorIndex ==
    Upsert({}, ChunkId("old.txt", 0, "1b2c3d4e"),
           Embedding(<<[c |-> "b", n |-> 100]>>, "retrieval_document"),
           [source |-> "old.txt", title |-> "Old", section |-> "main", position |-> 0],
           <<[c |-> "b", n |-> 100]>>)

TextABC == <<[c |-> "a", n |-> 1], [c |-> " ", n |-> 1], [c |-> "b", n |-> 1],
             [c |-> " ", n |-> 1], [c |-> "a", n |-> 1]>>
TextBlank == <<[c |-> " ", n |-> 1], [c |-> "\n", n |-> 1]>>
TextTwoChunks == <<[c |-> "a", n |-> 900]>>
TextThreeChunks == <<[c |-> "a", n |-> 2000]>>
TextNoReturn == <<[c |-> "a", n |-> 500], [c |-> " ", n |-> 1], [c |-> "a", n |-> 900]>>

UploadTexts == {<<>>, TextBlank, TextABC, TextTwoChunks, TextThreeChunks, TextNoReturn}
FileTexts == {<<>>, TextBlank, TextABC, TextThreeChunks}
Files == [filename : {Some("doc.pdf"), Some("notes.txt"), None},
          size : {1024, MaxFileSize, MaxFileSize + 1},
          body : [wellformed : BOOLEAN, text : FileTexts]]
Titles == {"Untitled Document"}
UploadRequests == [file : {Some(f) : f \in Files} \cup {None},
                   text : {Some(t) : t \in UploadTexts} \cup {None},
                   title : Titles]

\* upload_document, lines 19-27, up to the first await of _store_chunks: the
\* text is extracted and chunked.
UploadEnter ==
    /\ up_pc = "entry"
    /\ LET got == ExtractText(upload.file, upload.text) IN
       \/ /\ got.error # None
          /\ up_pc' = "error"
          /\ up_response' = got.error
          /\ UNCHANGED <<up_chunks>>
       \/ /\ got.error = None
          /\ \E hex \in UuidHex :
               LET res == ChunkText(got.text, got.source, upload.title, "main", hex) IN
               /\ up_chunks' = res.chunks
               /\ up_pc' = IF res.returned THEN "store" ELSE "hung"
          /\ UNCHANGED <<up_response>>
    /\ up_next' = 1
    /\ stored_count' = 0
    /\ UNCHANGED <<upload, index, up_calls>>

\* _store_chunks, lines 123-131: one iteration of the for loop.  Either call
\* may raise; upload_document turns the exception into HTTPException(500).
StoreChunk ==
    /\ up_pc = "store"
    /\ up_next <= Len(up_chunks)
    /\ LET chunk == up_chunks[up_next]
           embed == [op |-> "embed", position |-> chunk.metadata.position]
           upsert == [op |-> "upsert", position |-> chunk.metadata.position]
       IN
       \/ /\ index' = Upsert(index, chunk.id,
                             Embedding(chunk.content, "retrieval_document"),
                             chunk.metadata, chunk.content)
          /\ stored_count' = stored_count + 1
          /\ up_next' = up_next + 1
          /\ up_calls' = up_calls \o <<embed, upsert>>
          /\ UNCHANGED <<up_pc, up_response>>
       \/ /\ up_pc' = "error"
          /\ up_response' = Some(HTTPException(500, "embedding failed"))
          /\ up_calls' = up_calls \o <<embed>>
          /\ UNCHANGED <<index, stored_count, up_next>>
       \/ /\ up_pc' = "error"
          /\ up_response' = Some(HTTPException(500, "upsert failed"))
          /\ up_calls' = up_calls \o <<embed, upsert>>
          /\ UNCHANGED <<index, stored_count, up_next>>
    /\ UNCHANGED <<upload, up_chunks>>

DocumentUploadResponse(count, document_id) ==
    [status |-> 200, chunks_created |-> count, document_id |-> document_id]

\* lines 132 and 29-33: the loop is over and the success response is returned.
UploadReturn ==
    /\ up_pc = "store"
    /\ up_next > Len(up_chunks)
    /\ up_pc' = "ok"
    /\ up_response' =
          Some(DocumentUploadResponse(stored_count,
                                      ExtractText(upload.file, upload.text).source))
    /\ UNCHANGED <<upload, up_chunks, up_next, stored_count, index, up_calls>>

NextUpload ==
    \/ UploadEnter /\ UNCHANGED <<chunk_vars, query_vars, cite_vars, cost_vars>>
    \/ StoreChunk /\ UNCHANGED <<chunk_vars, query_vars, cite_vars, cost_vars>>
    \/ UploadReturn /\ UNCHANGED <<chunk_vars, query_vars, cite_vars, cost_vars>>

InitUpload ==
    /\ upload \in UploadRequests
    /\ up_chunks = <<>>
    /\ up_next = 1
    /\ stored_count = 0
    /\ index = PriorIndex
    /\ up_pc = "entry"
    /\ up_response = None
    /\ up_calls = <<>>
    /\ ChunkIdle /\ QueryIdle /\ CiteIdle /\ CostIdle

SpecUpload == InitUpload /\ [][NextUpload]_vars

(***************************************************************************)
(* LLMService._extract_citations                                           *)
(***************************************************************************)
Digits == {"0", "1", "2", "3", "4", "5", "6", "7", "8", "9"}

DigitValue(d) ==
    CASE d = "0" -> 0 [] d = "1" -> 1 [] d = "2" -> 2 [] d = "3" -> 3
      [] d = "4" -> 4 [] d = "5" -> 5 [] d = "6" -> 6 [] d = "7" -> 7
      [] d = "8" -> 8 [] d = "9" -> 9

\* int(citation_num_str), for a string of digits
RECURSIVE ParseInt(_)
ParseInt(ds) ==
    IF ds = <<>> THEN 0
    ELSE 10 * ParseInt(SubSeq(ds, 1, Len(ds) - 1)) + DigitValue(ds[Len(ds)])

\* The first position at or after i that holds no digit (Len(s) + 1 if none).
RECURSIVE DigitsEnd(_, _)
DigitsEnd(s, i) ==
    IF i <= Len(s) /\ s[i] \in Digits THEN DigitsEnd(s, i + 1) ELSE i

\* re.findall(r'\[(\d+)\]', s) from position i on: the digit strings of the
\* non-overlapping matches, left to right.
RECURSIVE FindAllFrom(_, _)
FindAllFrom(s, i) ==
    IF i > Len(s) THEN <<>>
    ELSE LET j == DigitsEnd(s, i + 1) IN
         IF s[i] = "[" /\ j > i + 1 /\ j <= Len(s) /\ s[j] = "]"
         THEN <<SubSeq(s, i + 1, j - 1)>> \o FindAllFrom(s, j + 1)
         ELSE FindAllFrom(s, i + 1)

FindAll(s) == FindAllFrom(s, 1)

\* set(found_citations): a set of strings
FoundSet(s) == {FindAll(s)[k] : k \in 1..Len(FindAll(s))}

\* The orders in which a for loop may run through a Python set.
IterationOrders(S) ==
    {f \in [1..Cardinality(S) -> S] :
        \A a, b \in 1..Cardinality(S) : a # b => f[a] # f[b]}

\* doc.content[:150] + ("..." if len(doc.content) > 150 else "")
ContentSnippet(content) ==
    Concat(Slice(content, 0, SnippetLen),
           IF StrLen(content) > SnippetLen THEN <<[c |-> ".", n |-> 3]>> ELSE <<>>)

Citation(idx, source, title, content_snippet) ==
    [index |-> idx, source |-> source, title |-> title,
     content_snippet |-> content_snippet]

\* if 1 <= citation_num <= len(context_documents)
CitationInRange(n, docs) == 1 <= n /\ n <= Len(docs)

\* The for loop of lines 108-122 over the strings in the order given.
RECURSIVE CollectCitations(_, _)
CollectCitations(order, docs) ==
    IF order = <<>> THEN <<>>
    ELSE LET n == ParseInt(order[1]) IN
         (IF CitationInRange(n, docs)
          THEN <<Citation(n, docs[n].source, docs[n].title,
                          ContentSnippet(docs[n].content))>>
          ELSE <<>>)
         \o CollectCitations(Tail(order), docs)

\* Insert c into a list sorted by index, after the entries of equal index.
RECURSIVE InsertByIndex(_, _)
InsertByIndex(sorted, c) ==
    IF sorted = <<>> THEN <<c>>
    ELSE IF sorted[1].index <= c.index
         THEN <<sorted[1]>> \o InsertByIndex(Tail(sorted), c)
         ELSE <<c>> \o sorted

\* The sort left out: the citations stay in the order of the loop.
SortByIndexMissing(cs) == cs

\* citations.sort(key=lambda x: x.index): a stable sort
RECURSIVE SortByIndex(_)
SortByIndex(cs) ==
    IF cs = <<>> THEN <<>>
    ELSE InsertByIndex(SortByIndex(SubSeq(cs, 1, Len(cs) - 1)), cs[Len(cs)])

\* _extract_citations, the set being run through in the order given
ExtractCitations(answer, docs, order) == SortByIndex(CollectCitations(order, docs))

(***************************************************************************)
(* The documents of the index at query time, in similarity order.          *)
(***************************************************************************)
SourceDocument(id, content, source, title, score) ==
    [id |-> id, content |-> content, source |-> source, title |-> title,
     score |-> score, rerank_score |-> None]

\* The i-th nearest vector: contents of 100, 150, 200, ... characters, the
\* first two from one source document.
Match(i) ==
    [id |-> <<IF i <= 2 THEN "a.txt" ELSE "b.txt", i, "8f3a91c2">>,
     score |-> 100 - i,
     content |-> <<[c |-> "a", n |-> 50 * (i + 1)]>>,
     source |-> IF i <= 2 THEN "a.txt" ELSE "b.txt",
     title |-> IF i <= 2 THEN "Title A" ELSE "Title B"]

\* VectorStoreService.query_similar: up to top_k matches, nearest first
QuerySimilar(n, top_k) == [i \in 1..Min(n, top_k) |-> Match(i)]

\* lines 46-54: the matches as SourceDocument objects
ToSourceDocuments(similar_docs) ==
    [i \in 1..Len(similar_docs) |->
        SourceDocument(similar_docs[i].id, similar_docs[i].content,
                       similar_docs[i].source, similar_docs[i].title,
                       similar_docs[i].score)]

ContextLists == {ToSourceDocuments(QuerySimilar(n, n)) : n \in 0..MaxDocs}

(***************************************************************************)
(* Answer texts.                                                           *)
(***************************************************************************)
NoContextAnswer ==
    <<"I", " ", "c", "o", "u", "l", "d", "n", "'", "t", " ", "f", "i", "n",
      "d", " ", "a", "n", "y", " ", "r", "e", "l", "e", "v", "a", "n", "t",
      " ", "i", "n", "f", "o", "r", "m", "a", "t", "i", "o", "n", " ", "t",
      "o", " ", "a", "n", "s", "w", "e", "r", " ", "y", "o", "u", "r", " ",
      "q", "u", "e", "s", "t", "i", "o", "n", ".">>

MalformedAnswer ==
    <<"I", " ", "a", "p", "o", "l", "o", "g", "i", "z", "e", ",", " ", "b",
      "u", "t", " ", "I", " ", "c", "o", "u", "l", "d", "n", "'", "t", " ",
      "g", "e", "n", "e", "r", "a", "t", "e", " ", "a", " ", "p", "r", "o",
      "p", "e", "r", " ", "r", "e", "s", "p", "o", "n", "s", "e", ".">>

ErrorAnswer ==
    <<"I", " ", "a", "p", "o", "l", "o", "g", "i", "z", "e", ",", " ", "b",
      "u", "t", " ", "I", " ", "e", "n", "c", "o", "u", "n", "t", "e", "r",
      "e", "d", " ", "a", "n", " ", "e", "r", "r", "o", "r", " ", "w", "h",
      "i", "l", "e", " ", "g", "e", "n", "e", "r", "a", "t", "i", "n", "g",
      " ", "t", "h", "e", " ", "a", "n", "s", "w", "e", "r", ".">>

NoResultsAnswer ==
    <<"I", " ", "c", "o", "u", "l", "d", "n", "'", "t", " ", "f", "i", "n",
      "d", " ", "a", "n", "y", " ", "r", "e", "l", "e", "v", "a", "n", "t",
      " ", "i", "n", "f", "o", "r", "m", "a", "t", "i", "o", "n", " ", "t",
      "o", " ", "a", "n", "s", "w", "e", "r", " ", "y", "o", "u", "r", " ",
      "q", "u", "e", "s", "t", "i", "o", "n", ".", " ", "P", "l", "e", "a",
      "s", "e", " ", "t", "r", "y", " ", "r", "e", "p", "h", "r", "a", "s",
      "i", "n", "g", " ", "y", "o", "u", "r", " ", "q", "u", "e", "r", "y",
      " ", "o", "r", " ", "u", "p", "l", "o", "a", "d", " ", "r", "e", "l",
      "e", "v", "a", "n", "t", " ", "d", "o", "c", "u", "m", "e", "n", "t",
      "s", ".">>

Segments ==
    {<<"[", "1", "]">>, <<"[", "2", "]">>, <<"[", "0", "2", "]">>,
     <<"[", "9", "]">>, <<"[", "0", "]">>, <<"x">>, <<"[">>, <<"3", "]">>}

\* Every text assembled from at most k segments.
RECURSIVE TextsOfSegments(_)
TextsOfSegments(k) ==
    IF k = 0 THEN {<<>>}
    ELSE LET shorter == TextsOfSegments(k - 1) IN
         shorter \cup {t \o g : t \in shorter, g \in Segments}

\* The answers the generative model returns in the query model.
ModelAnswers ==
    {<<"x">>,
     <<"x", "[", "1", "]">>,
     <<"[", "2", "]", "x", "[", "1", "]">>,
     <<"[", "2", "]", "[", "0", "2", "]", "[", "9", "]">>,
     <<"[", "3", "]", "[", "0", "]", "[", "3", "]">>}

CiteEnter ==
    /\ cite_pc = "entry"
    /\ \E order \in IterationOrders(FoundSet(answer_text)) :
          citations' = Some(ExtractCitations(answer_text, context_documents, order))
    /\ cite_pc' = "done"
    /\ UNCHANGED <<answer_text, context_documents>>

NextCite ==
    \/ CiteEnter /\ UNCHANGED <<chunk_vars, upload_vars, query_vars, cost_vars>>

InitCite ==
    /\ answer_text \in TextsOfSegments(MaxSegs)
    /\ context_documents \in ContextLists
    /\ citations = None
    /\ cite_pc = "entry"
    /\ ChunkIdle /\ UploadIdle /\ QueryIdle /\ CostIdle

SpecCite == InitCite /\ [][NextCite]_vars

(***************************************************************************)
(* RetrievalService.retrieve_and_rerank                                    *)
(***************************************************************************)

\* A duration measured with time.time(), in clock ticks: none, or some.
Durations == {0, 7}

RetrievalResult(docs, retrieval_time, rerank_time) ==
    [documents |-> docs, retrieval_time |-> retrieval_time,
     rerank_time |-> rerank_time]

\* The test for an empty result left out.
NoMatchesIgnored(similar_docs) == FALSE

\* if not similar_docs
NoMatches(similar_docs) == similar_docs = <<>>

\* documents[:top_k]
PyPrefix(seq, k) ==
    IF k >= 0 THEN SubSeq(seq, 1, Min(k, Len(seq)))
    ELSE SubSeq(seq, 1, Max(0, Len(seq) + k))

\* documents[i] raises IndexError unless -len <= i < len
ValidIndex(i, n) == -n <= i /\ i < n
\* the position (from 1) that documents[i] denotes
Position(i, n) == IF i >= 0 THEN i + 1 ELSE n + i + 1

\* The responses of the reranker: the original indices of the results, most
\* relevant first.  An index of MaxDocs lies outside every candidate list.
RECURSIVE IndexLists(_)
IndexLists(k) ==
    IF k = 0 THEN {<<>>}
    ELSE LET shorter == IndexLists(k - 1) IN
         shorter \cup {Append(r, x) : r \in shorter, x \in 0..MaxDocs}

\* The relevance score of the j-th result.
RelevanceScore(j) == 90 - j

\* What cohere_client.rerank does: it raises (None) or returns results.
RerankOutcomes == {None} \cup {Some(r) : r \in IndexLists(MaxResults)}

\* The for loop of lines 86-90 from result j on.  docs is the candidate list,
\* whose objects the loop changes in place; reranked lists the positions in
\* docs of the objects appended so far.
RECURSIVE RerankLoop(_, _, _, _)
RerankLoop(docs, results, j, reranked) ==
    IF j > Len(results)
    THEN [raised |-> FALSE, docs |-> docs, reranked |-> reranked]
    ELSE IF ~ValidIndex(results[j], Len(docs))
    THEN [raised |-> TRUE, docs |-> docs, reranked |-> reranked]
    ELSE LET at == Position(results[j], Len(docs)) IN
         RerankLoop([docs EXCEPT ![at].rerank_score = Some(RelevanceScore(j))],
                    results, j + 1, Append(reranked, at))

\* A fallback that forgets to cut the list to top_k.
RerankFallbackUncut(docs, top_k) == docs

\* except Exception: return documents[:top_k]
RerankFallback(docs, top_k) == PyPrefix(docs, top_k)

\* A rerank step that calls the reranker and then ignores its results.
RerankDocumentsKeepsOrder(docs, outcome, top_k) ==
    [failed |-> outcome = None, documents |-> PyPrefix(docs, top_k)]

\* _rerank_documents: the list returned, and whether the step failed.
RerankDocuments(docs, outcome, top_k) ==
    IF outcome = None
    THEN [failed |-> TRUE, documents |-> RerankFallback(docs, top_k)]
    ELSE LET run == RerankLoop(docs, Get(outcome), 1, <<>>) IN
         IF run.raised
         THEN [failed |-> TRUE, documents |-> RerankFallback(run.docs, top_k)]
         ELSE [failed |-> FALSE,
               documents |-> [k \in 1..Len(run.reranked) |-> run.docs[run.reranked[k]]]]

(***************************************************************************)
(* LLMService.generate_answer                                              *)
(***************************************************************************)

\* _initialize_client raises when the model cannot be set up, so a service
\* object always holds a model.
ModelInitialized == TRUE

LLMResponse(answer, cits, generation_time, token_usage, estimated_cost) ==
    [answer |-> answer, citations |-> cits, generation_time |-> generation_time,
     token_usage |-> token_usage, estimated_cost |-> estimated_cost]

\* The lengths of the fixed parts of the prompt and of one context entry.
PromptIntroLen == 106
PromptQuestionLen == 12
PromptTailLen == 24
ContextFrameLen == 23

NameLen(name) == CASE name = "a.txt" -> 5 [] name = "b.txt" -> 5

DecimalLen(i) == IF i < 10 THEN 1 ELSE 2

RECURSIVE ContextLen(_, _)
ContextLen(docs, i) ==
    IF i > Len(docs) THEN 0
    ELSE ContextFrameLen + DecimalLen(i) + NameLen(docs[i].source)
         + StrLen(docs[i].content) + ContextLen(docs, i + 1)

\* len(prompt)
PromptLen(query, docs) ==
    PromptIntroLen + ContextLen(docs, 1) + PromptQuestionLen + StrLen(query)
    + PromptTailLen

TokenUsage(prompt_tokens, completion_tokens, total_tokens) ==
    [prompt_tokens |-> prompt_tokens, completion_tokens |-> completion_tokens,
     total_tokens |-> total_tokens]

\* A slip of operator: the remainder of the division instead of the quotient.
EstimateTokenUsageRemainder(prompt_len, response_len) ==
    TokenUsage(prompt_len % 4, response_len % 4,
               (prompt_len % 4) + (response_len % 4))

\* _estimate_token_usage
EstimateTokenUsage(prompt_len, response_len) ==
    TokenUsage(prompt_len \div 4, response_len \div 4,
               (prompt_len \div 4) + (response_len \div 4))

\* input_cost + output_cost, exactly, in 10^-9 dollars.
CostNanos(token_usage) ==
    InputRate * token_usage.prompt_tokens
    + OutputRate * token_usage.completion_tokens

\* round(x, 6) of x = nanos * 10^-9, in 10^-6 dollars.  The float sum that
\* the code rounds differs from the exact sum by less than 10^-15 dollars, so
\* it rounds as the exact sum does unless that lies midway between two
\* multiples of 10^-6; then the float error decides, and tie_up says how.
RoundMicros(nanos, tie_up) ==
    LET q == nanos \div RoundingUnit
        r == nanos % RoundingUnit
    IN  IF 2 * r > RoundingUnit \/ (2 * r = RoundingUnit /\ tie_up) THEN q + 1 ELSE q

\* The ways the rounding of a cost may fall: either way at a tie.
TieDirections(token_usage) ==
    IF 2 * (CostNanos(token_usage) % RoundingUnit) = RoundingUnit
    THEN BOOLEAN ELSE {FALSE}

\* _estimate_cost, in 10^-6 dollars
EstimateCost(token_usage, tie_up) == RoundMicros(CostNanos(token_usage), tie_up)

\* Reading the text with no guard: the answer is taken as it is.
ResponseTextUnguarded(fault, ans) == ans

\* try: answer_text = response.text / except: the apology
ResponseText(fault, ans) == IF fault = "malformed" THEN MalformedAnswer ELSE ans

\* The answer of the outer except clause.
DegradedAnswer == LLMResponse(ErrorAnswer, <<>>, 0, None, None)

\* generate_answer.  fault says what the model call does ("none": it returns
\* the answer ans; "raise": it raises; "malformed": reading the text of its
\* response raises), t is the duration measured around the call, order the
\* order in which _extract_citations runs through its set, tie_up the way
\* the rounding of the cost falls at a tie.
GenerateAnswer(query, docs, fault, ans, t, order, tie_up) ==
    IF ~ModelInitialized THEN DegradedAnswer
    ELSE IF docs = <<>> THEN LLMResponse(NoContextAnswer, <<>>, 0, None, None)
    ELSE IF fault = "raise" THEN DegradedAnswer
    ELSE LET answer == ResponseText(fault, ans)
             token_usage == EstimateTokenUsage(PromptLen(query, docs), Len(answer))
         IN  LLMResponse(answer, ExtractCitations(answer, docs, order), t,
                         Some(token_usage), Some(EstimateCost(token_usage, tie_up)))

(***************************************************************************)
(* DocumentRoutes.query_documents                                          *)
(***************************************************************************)
QueryRequest(query, top_k, rerank_top_k) ==
    [query |-> query, top_k |-> top_k, rerank_top_k |-> rerank_top_k]

QueryText == <<[c |-> "a", n |-> 5], [c |-> " ", n |-> 1], [c |-> "b", n |-> 14]>>

QueryRequests ==
    {QueryRequest(QueryText, k, r) : k \in 1..MaxDocs, r \in 0..MaxDocs}

QueryResponse(answer, cits, sources, retrieval_time, rerank_time, llm_time, total_time, token_usage, estimated_cost) ==
    [status |-> 200, answer |-> answer, citations |-> cits, sources |-> sources,
     retrieval_time |-> retrieval_time, rerank_time |-> rerank_time,
     llm_time |-> llm_time, total_time |-> total_time,
     token_usage |-> token_usage, estimated_cost |-> estimated_cost]

\* _no_results_response
NoResultsResponse(res) ==
    QueryResponse(NoResultsAnswer, <<>>, <<>>, res.retrieval_time, res.rerank_time,
                  0, res.retrieval_time + res.rerank_time, None, None)

\* A response that leaves the rerank time out of the total.
BuildResponseDropsRerank(res, llm) ==
    [status |-> 200, answer |-> llm.answer, citations |-> llm.citations,
     sources |-> res.documents, retrieval_time |-> res.retrieval_time,
     rerank_time |-> res.rerank_time, llm_time |-> llm.generation_time,
     total_time |-> res.retrieval_time + llm.generation_time,
     token_usage |-> llm.token_usage, estimated_cost |-> llm.estimated_cost]

\* _build_response
BuildResponse(res, llm) ==
    QueryResponse(llm.answer, llm.citations, res.documents, res.retrieval_time,
                  res.rerank_time, llm.generation_time,
                  res.retrieval_time + res.rerank_time + llm.generation_time,
                  llm.token_usage, llm.estimated_cost)

\* An embedding step that tries a second time before it gives up.
QueryEmbedRetries ==
    /\ q_pc = "entry"
    /\ \/ /\ calls' = Append(calls, "embed")
          /\ q_pc' = "embedded"
          /\ UNCHANGED q_response
       \/ /\ calls' = calls \o <<"embed", "embed">>
          /\ \/ /\ q_pc' = "embedded"
                /\ UNCHANGED q_response
             \/ /\ q_pc' = "done"
                /\ q_response' = Some(HTTPException(500, "embedding failed"))
    /\ UNCHANGED <<request, cohere_client, corpus, documents, retrieval,
                   llm_response, rerank_ok, rerank_results, llm_fault, elapsed>>

\* retrieval.py line 38: the query is embedded.  A failure propagates to
\* query_documents, which answers HTTPException(500).
QueryEmbed ==
    /\ q_pc = "entry"
    /\ calls' = Append(calls, "embed")
    /\ \/ /\ q_pc' = "embedded"
          /\ UNCHANGED q_response
       \/ /\ q_pc' = "done"
          /\ q_response' = Some(HTTPException(500, "embedding failed"))
    /\ UNCHANGED <<request, cohere_client, corpus, documents, retrieval,
                   llm_response, rerank_ok, rerank_results, llm_fault, elapsed>>

\* retrieval.py lines 39-54: the index is searched; with no match the empty
\* result is returned at once.
QuerySearch ==
    /\ q_pc = "embedded"
    /\ calls' = Append(calls, "search")
    /\ \/ /\ q_pc' = "done"
          /\ q_response' = Some(HTTPException(500, "index query failed"))
          /\ UNCHANGED <<documents, retrieval, elapsed>>
       \/ \E t \in Durations :
            LET similar_docs == QuerySimilar(corpus, request.top_k) IN
            /\ elapsed' = [elapsed EXCEPT !.retrieval = t]
            /\ IF NoMatches(similar_docs)
               THEN /\ retrieval' = Some(RetrievalResult(<<>>, t, 0))
                    /\ documents' = <<>>
                    /\ q_pc' = "retrieved"
               ELSE /\ documents' = ToSourceDocuments(similar_docs)
                    /\ q_pc' = "searched"
                    /\ UNCHANGED retrieval
            /\ UNCHANGED q_response
    /\ UNCHANGED <<request, cohere_client, corpus, llm_response, rerank_ok,
                   rerank_results, llm_fault>>

\* retrieval.py lines 56-68 with _rerank_documents: the candidates are
\* reranked, or cut to rerank_top_k, and the result is returned.
QueryRerank ==
    /\ q_pc = "searched"
    /\ \E t \in Durations :
         /\ elapsed' = [elapsed EXCEPT !.rerank = t]
         /\ \/ /\ cohere_client /\ Len(documents) > 1
               /\ \E outcome \in RerankOutcomes :
                    LET got == RerankDocuments(documents, outcome, request.rerank_top_k) IN
                    /\ documents' = got.documents
                    /\ rerank_ok' = IF got.failed THEN "failed" ELSE "ok"
                    /\ rerank_results' = outcome
               /\ calls' = Append(calls, "rerank")
            \/ /\ ~(cohere_client /\ Len(documents) > 1)
               /\ documents' = PyPrefix(documents, request.rerank_top_k)
               /\ rerank_ok' = "skipped"
               /\ UNCHANGED <<calls, rerank_results>>
         /\ retrieval' = Some(RetrievalResult(documents', elapsed.retrieval, t))
    /\ q_pc' = "retrieved"
    /\ UNCHANGED <<request, cohere_client, corpus, llm_response, q_response, llm_fault>>

\* routes.py lines 50-51: nothing was retrieved.
QueryNoResults ==
    /\ q_pc = "retrieved"
    /\ Get(retrieval).documents = <<>>
    /\ q_response' = Some(NoResultsResponse(Get(retrieval)))
    /\ q_pc' = "done"
    /\ UNCHANGED <<request, cohere_client, corpus, documents, retrieval,
                   llm_response, calls, rerank_ok, rerank_results, llm_fault,
                   elapsed>>

\* routes.py lines 54-57: generate_answer on the retrieved documents.
QueryGenerate ==
    /\ q_pc = "retrieved"
    /\ Get(retrieval).documents # <<>>
    /\ \E fault \in {"none", "raise", "malformed"}, ans \in ModelAnswers,
          t \in Durations :
         \E order \in IterationOrders(FoundSet(ResponseText(fault, ans))),
            tie_up \in TieDirections(
                          EstimateTokenUsage(PromptLen(request.query,
                                                       Get(retrieval).documents),
                                             Len(ResponseText(fault, ans)))) :
            /\ llm_response' =
                  Some(GenerateAnswer(request.query, Get(retrieval).documents,
                                      fault, ans, t, order, tie_up))
            /\ llm_fault' = fault
            /\ elapsed' = [elapsed EXCEPT
                             !.generation = IF fault = "raise" THEN -1 ELSE t]
    /\ calls' = Append(calls, "generate")
    /\ q_pc' = "generated"
    /\ UNCHANGED <<request, cohere_client, corpus, documents, retrieval,
                   q_response, rerank_ok, rerank_results>>

\* routes.py line 59: the response is assembled.
QueryAssemble ==
    /\ q_pc = "generated"
    /\ q_response' = Some(BuildResponse(Get(retrieval), Get(llm_response)))
    /\ q_pc' = "done"
    /\ UNCHANGED <<request, cohere_client, corpus, documents, retrieval,
                   llm_response, calls, rerank_ok, rerank_results, llm_fault,
                   elapsed>>

NextQuery ==
    \/ QueryEmbed /\ UNCHANGED <<chunk_vars, upload_vars, cite_vars, cost_vars>>
    \/ QuerySearch /\ UNCHANGED <<chunk_vars, upload_vars, cite_vars, cost_vars>>
    \/ QueryRerank /\ UNCHANGED <<chunk_vars, upload_vars, cite_vars, cost_vars>>
    \/ QueryNoResults /\ UNCHANGED <<chunk_vars, upload_vars, cite_vars, cost_vars>>
    \/ QueryGenerate /\ UNCHANGED <<chunk_vars, upload_vars, cite_vars, cost_vars>>
    \/ QueryAssemble /\ UNCHANGED <<chunk_vars, upload_vars, cite_vars, cost_vars>>

InitQuery ==
    /\ request \in QueryRequests
    /\ cohere_client \in BOOLEAN
    /\ corpus \in 0..MaxDocs
    /\ documents = <<>>
    /\ retrieval = None
    /\ llm_response = None
    /\ q_response = None
    /\ q_pc = "entry"
    /\ calls = <<>>
    /\ rerank_ok = "none"
    /\ rerank_results = None
    /\ llm_fault = "none"
    /\ elapsed = NotMeasured
    /\ ChunkIdle /\ UploadIdle /\ CiteIdle /\ CostIdle

SpecQuery == InitQuery /\ [][NextQuery]_vars

(***************************************************************************)
(* LLMService._estimate_token_usage and _estimate_cost, called for         *)
(* completions of several lengths with one prompt.                         *)
(***************************************************************************)
PromptLens == {0, 80, 142, 1000}
CompletionLens == 0..MaxCompletionLen

\* The exact costs, for a prompt of prompt_len characters, that lie midway
\* between two multiples of 10^-6 dollars.
TiePoints(prompt_len) ==
    {n \in {CostNanos(EstimateTokenUsage(prompt_len, r)) : r \in CompletionLens} :
        2 * (n % RoundingUnit) = RoundingUnit}

\* llm.py lines 83-84 for a completion of response_len characters.
Estimate ==
    /\ est_pc = "ready"
    /\ Len(estimates) < 2
    /\ \E response_len \in CompletionLens :
         LET token_usage == EstimateTokenUsage(est_prompt, response_len)
             cost == EstimateCost(token_usage, CostNanos(token_usage) \in est_ties)
         IN  estimates' = Append(estimates,
                                 [response_len |-> response_len,
                                  token_usage |-> token_usage,
                                  estimated_cost |-> cost])
    /\ UNCHANGED <<est_prompt, est_ties, est_pc>>

NextCost ==
    \/ Estimate /\ UNCHANGED <<chunk_vars, upload_vars, query_vars, cite_vars>>

InitCost ==
    /\ est_prompt \in PromptLens
    /\ est_ties \in SUBSET TiePoints(est_prompt)
    /\ estimates = <<>>
    /\ est_pc = "ready"
    /\ ChunkIdle /\ UploadIdle /\ QueryIdle /\ CiteIdle

SpecCost == InitCost /\ [][NextCost]_vars

\* Citation extraction on its own and inside a query.
InitAnswer == InitCite \/ InitQuery
NextAnswer == NextCite \/ NextQuery
SpecAnswer == InitAnswer /\ [][NextAnswer]_vars

\* The whole model: one call of chunk_text, one upload, one query or one
\* call of _extract_citations, or the cost estimates of one prompt.
Init == InitChunk \/ InitUpload \/ InitQuery \/ InitCite \/ InitCost
Next == NextChunk \/ NextUpload \/ NextQuery \/ NextCite \/ NextCost
Spec == Init /\ [][Next]_vars

(***************************************************************************)
(* Claims about chunk_text, checked under SpecChunk.                       *)
(***************************************************************************)

\* C1 (as claimed): every iteration of the windowing loop moves the window
\* start strictly forward, so the loop ends after finitely many iterations.
C1_ForwardProgress ==
    [][(chunk_pc = "loop" /\ windows' # windows) => start' > start]_vars

\* C2 (as claimed): a text whose normalized length is non-zero and below the
\* chunk size yields exactly one chunk, holding the normalized text, at
\* position 0.
C2_ShortTextOneChunk ==
    (chunk_pc = "done" /\ StrLen(cleaned_text) > 0
        /\ StrLen(cleaned_text) < chunk_size)
    => /\ Len(chunks) = 1
       /\ chunks[1].content = Strip(cleaned_text)
       /\ chunks[1].metadata.position = 0

\* The windows whose slice was emitted as a chunk, in order.
EmittedWindows == SelectSeq(windows, LAMBDA w : w.emitted)

\* The end of a window's slice: Python clamps a slice at the end of the text.
SliceEnd(w) == Min(w.hi, StrLen(cleaned_text))

\* Position p of the normalized text lies inside the slice of an emitted chunk.
InSomeChunk(p) ==
    \E i \in 1..Len(EmittedWindows) :
        EmittedWindows[i].lo <= p /\ p < SliceEnd(EmittedWindows[i])

\* The [lo, hi) intervals of the maximal runs of non-space characters.
RECURSIVE NonSpaceIntervals(_, _)
NonSpaceIntervals(s, at) ==
    IF s = <<>> THEN {}
    ELSE (IF s[1].c = " " THEN {} ELSE {[lo |-> at, hi |-> at + s[1].n]})
         \cup NonSpaceIntervals(Tail(s), at + s[1].n)

\* Every position of the interval r lies in some emitted chunk.  The least
\* position of r outside every chunk, if there is one, is r.lo or the slice
\* end of a chunk that holds the position before it: checking those positions
\* decides all of them.
IntervalCovered(r) ==
    \A p \in {r.lo} \cup {SliceEnd(EmittedWindows[i]) : i \in 1..Len(EmittedWindows)} :
        (r.lo <= p /\ p < r.hi) => InSomeChunk(p)

\* C3: when chunk_text returns, every non-space character position of the
\* normalized text lies inside the slice of at least one emitted chunk, and
\* the chunks appear in strictly increasing order of their slice end (the end
\* of cleaned_text[start:end]).
C3_ChunksCoverText ==
    chunk_pc = "done" =>
        /\ Len(EmittedWindows) = Len(chunks)
        /\ \A i \in 1..Len(chunks) :
              chunks[i].content =
                  Strip(Slice(cleaned_text, EmittedWindows[i].lo, EmittedWindows[i].hi))
        /\ \A r \in NonSpaceIntervals(cleaned_text, 0) : IntervalCovered(r)
        /\ \A i \in 1..(Len(chunks) - 1) :
              EmittedWindows[i].hi < EmittedWindows[i + 1].hi

\* chunk_text has returned at least three chunks, one cut at a space and one
\* cut inside a word.
C3_Witness ==
    /\ chunk_pc = "done"
    /\ Len(chunks) >= 3
    /\ \E i \in 1..Len(windows) :
          windows[i].hi < windows[i].lo + chunk_size
          /\ CharAt(cleaned_text, windows[i].hi) = " "
    /\ \E i \in 1..Len(windows) :
          windows[i].hi < StrLen(cleaned_text)
          /\ CharAt(cleaned_text, windows[i].hi) # " "

\* The [lo, hi) intervals of the runs of spaces of s.
RECURSIVE SpaceIntervals(_, _)
SpaceIntervals(s, at) ==
    IF s = <<>> THEN {}
    ELSE (IF s[1].c = " " THEN {[lo |-> at, hi |-> at + s[1].n]} ELSE {})
         \cup SpaceIntervals(Tail(s), at + s[1].n)

\* The positions p with a < p <= b that hold the last space, at or left of b,
\* of some run of spaces; the greatest of them is the nearest space at or
\* left of b.
SpacesWithin(s, a, b) ==
    {p \in {Min(r.hi - 1, b) : r \in {q \in SpaceIntervals(s, 0) : q.lo <= b}} : p > a}

Greatest(S) == CHOOSE p \in S : \A q \in S : q <= p

Stored(chunk) == \E v \in index : v.id = chunk.id /\ v.metadata.content = chunk.content

\* C4 (as claimed): an upload either stores every chunk and reports success,
\* or fails with an error and leaves the vector index as it was.
C4_IngestAllOrNothing ==
    /\ up_pc = "ok" =>
          /\ Get(up_response).status = 200
          /\ \A i \in 1..Len(up_chunks) : Stored(up_chunks[i])
    /\ up_pc = "error" =>
          /\ Get(up_response).status # 200
          /\ index = PriorIndex

\* The content an upload carries: the text if one is given, else the text of
\* the file, else nothing.
UploadContent ==
    IF upload.text # None /\ Get(upload.text) # <<>> THEN upload.text
    ELSE IF upload.file # None THEN Some(Get(upload.file).body.text)
    ELSE None

\* The upload has no content, or none but whitespace.
EmptyUpload == UploadContent = None \/ Strip(Get(UploadContent)) = <<>>

\* C13 (as claimed): an upload with neither file nor text, or whose content
\* has no non-whitespace character, ends in a rejected-request error, is not
\* reported as a success, and stores nothing.
C13_EmptyUploadRejected ==
    EmptyUpload =>
        /\ up_pc # "ok"
        /\ up_pc = "error" => Get(up_response).status \in {400, 413}
        /\ index = PriorIndex

\* The vectors that the upload added to the index.
AddedVectors == index \ PriorIndex

\* The embed and upsert calls of n chunks made one chunk at a time, in
\* position order.
SequentialCalls(n) ==
    [k \in 1..(2 * n) |->
        [op |-> IF k % 2 = 1 THEN "embed" ELSE "upsert", position |-> (k - 1) \div 2]]

Candidates == ToSourceDocuments(QuerySimilar(corpus, request.top_k))

\* d is the candidate e (whatever its rerank_score).
SameDocument(d, e) ==
    /\ d.id = e.id
    /\ d.content = e.content
    /\ d.source = e.source
    /\ d.title = e.title
    /\ d.score = e.score

\* The request ended with a response, not with an HTTP error.
Answered == q_pc = "done" => Get(q_response).status = 200

\* C5: when the reranker is invoked and fails, retrieve_and_rerank returns the
\* first rerank_top_k candidates in their similarity order, and the request
\* does not fail.
C5_RerankFailureFallsBack ==
    rerank_ok = "failed" =>
        /\ retrieval # None
        /\ Len(Get(retrieval).documents) = Min(request.rerank_top_k, Len(Candidates))
        /\ \A i \in 1..Len(Get(retrieval).documents) :
              SameDocument(Get(retrieval).documents[i], Candidates[i])
        /\ Answered

\* The reranker failed on a request with more candidates than rerank_top_k,
\* and the request has been answered.
C5_Witness ==
    /\ rerank_ok = "failed"
    /\ q_pc = "done"
    /\ request.rerank_top_k >= 1
    /\ Len(Candidates) > request.rerank_top_k

\* C6 (as claimed): a returned document carries a rerank_score only if the
\* reranking step of the request succeeded.
C6_RerankScoreOnlyAfterSuccess ==
    retrieval # None =>
        \A i \in 1..Len(Get(retrieval).documents) :
            Get(retrieval).documents[i].rerank_score # None => rerank_ok = "ok"

\* C7 (as claimed): after any failure of generation the answer is an apology
\* with no citations and generation_time 0.
C7_FailureZeroTime ==
    (llm_fault # "none" /\ llm_response # None) =>
        /\ Get(llm_response).answer \in {ErrorAnswer, MalformedAnswer}
        /\ Get(llm_response).citations = <<>>
        /\ Get(llm_response).generation_time = 0

\* C7 (amended): a failure of generation is never propagated and gives an
\* apology with no citations; generation_time is 0 (and no token usage is
\* given) when the model call raises, and is the duration measured around
\* the call (with a token usage) when the response is malformed.
C7_FailureDegradedAnswer ==
    (llm_fault # "none" /\ q_pc \in {"generated", "done"}) =>
        /\ llm_response # None
        /\ Get(llm_response).citations = <<>>
        /\ llm_fault = "raise" =>
              /\ Get(llm_response).answer = ErrorAnswer
              /\ Get(llm_response).generation_time = 0
              /\ Get(llm_response).token_usage = None
        /\ llm_fault = "malformed" =>
              /\ Get(llm_response).answer = MalformedAnswer
              /\ Get(llm_response).generation_time = elapsed.generation
              /\ Get(llm_response).token_usage # None
        /\ q_pc = "done" =>
              /\ Get(q_response).status = 200
              /\ Get(q_response).answer = Get(llm_response).answer
              /\ Get(q_response).citations = <<>>

\* A malformed model response whose call took time, in a finished request.
C7_Witness ==
    /\ llm_fault = "malformed"
    /\ q_pc = "done"
    /\ elapsed.generation > 0

\* C10: when the index returns zero matches, retrieve_and_rerank returns no
\* documents, the measured retrieval time and a rerank time of 0, nothing is
\* raised, and the reranker is not called.
C10_NoMatchesShortCircuit ==
    (corpus = 0 /\ elapsed.retrieval # -1) =>
        /\ retrieval = Some(RetrievalResult(<<>>, elapsed.retrieval, 0))
        /\ \A k \in 1..Len(calls) : calls[k] # "rerank"
        /\ rerank_ok = "none"
        /\ elapsed.rerank = -1
        /\ Answered

\* A finished request on an empty index with a reranker configured, whose
\* search took time.
C10_Witness ==
    /\ corpus = 0
    /\ cohere_client
    /\ q_pc = "done"
    /\ elapsed.retrieval > 0
    /\ Get(q_response).status = 200

(***************************************************************************)
(* Claims about query_documents, checked under SpecQuery.                  *)
(***************************************************************************)

\* The generative model has been called for the request.
GenerateCalled == \E k \in 1..Len(calls) : calls[k] = "generate"

\* C11: when retrieval yields zero documents the generative model is never
\* called and the response is the fixed "couldn't find any relevant
\* information" answer with no citations, no sources, llm_time 0 and
\* total_time = retrieval_time + rerank_time; every other successful response
\* has total_time = retrieval_time + rerank_time + llm_time.
C11_NoDocumentsNoGeneration ==
    /\ (retrieval # None /\ Get(retrieval).documents = <<>>) =>
          /\ ~GenerateCalled
          /\ llm_response = None
          /\ q_pc = "done" =>
                LET r == Get(q_response) IN
                /\ r.status = 200
                /\ r.answer = NoResultsAnswer
                /\ r.citations = <<>>
                /\ r.sources = <<>>
                /\ r.retrieval_time = elapsed.retrieval
                /\ r.rerank_time = Max(elapsed.rerank, 0)
                /\ r.llm_time = 0
                /\ r.total_time = r.retrieval_time + r.rerank_time
    /\ (q_pc = "done" /\ retrieval # None /\ Get(retrieval).documents # <<>>) =>
          LET r == Get(q_response) IN
          /\ r.status = 200
          /\ GenerateCalled
          /\ r.sources = Get(retrieval).documents
          /\ r.retrieval_time = elapsed.retrieval
          /\ r.rerank_time = elapsed.rerank
          /\ r.llm_time = Get(llm_response).generation_time
          /\ r.total_time = r.retrieval_time + r.rerank_time + r.llm_time

\* A finished request whose index had matches but whose retrieval kept none
\* of them, with time spent on the search and on the rerank step.
C11_Witness ==
    /\ q_pc = "done"
    /\ corpus > 0
    /\ retrieval # None
    /\ Get(retrieval).documents = <<>>
    /\ elapsed.retrieval > 0
    /\ elapsed.rerank > 0


\* The reranker has been called for the request.
RerankCalled == \E k \in 1..Len(calls) : calls[k] = "rerank"

\* No index occurs twice in the results.
DistinctIndices(results) ==
    \A a, b \in 1..Len(results) : a # b => results[a] # results[b]

\* The last result that names the same candidate as result j.
LastResultOf(results, j) ==
    CHOOSE k \in j..Len(results) :
        /\ results[k] = results[j]
        /\ \A m \in (k + 1)..Len(results) : results[m] # results[j]

\* C12: when reranking succeeds the returned list is exactly the candidates at
\* the reranker's indices, in the reranker's order, each with its relevance
\* score attached (a candidate the reranker names twice carries the score of
\* its last result); otherwise the list is the first rerank_top_k candidates
\* in similarity order; and the reranker is called only when one is
\* configured and there is more than one candidate.
C12_FinalOrder ==
    /\ rerank_ok = "ok" =>
          /\ retrieval # None /\ rerank_results # None
          /\ LET results == Get(rerank_results)
                 docs == Get(retrieval).documents
             IN  /\ Len(docs) = Len(results)
                 /\ \A j \in 1..Len(results) :
                       /\ results[j] + 1 \in 1..Len(Candidates)
                       /\ SameDocument(docs[j], Candidates[results[j] + 1])
                       /\ docs[j].rerank_score =
                             Some(RelevanceScore(LastResultOf(results, j)))
                 /\ DistinctIndices(results) =>
                       \A j \in 1..Len(results) :
                           docs[j].rerank_score = Some(RelevanceScore(j))
    /\ rerank_ok \in {"failed", "skipped"} =>
          /\ retrieval # None
          /\ LET docs == Get(retrieval).documents IN
             /\ Len(docs) = Min(request.rerank_top_k, Len(Candidates))
             /\ \A i \in 1..Len(docs) : SameDocument(docs[i], Candidates[i])
    /\ RerankCalled <=> rerank_ok \in {"ok", "failed"}
    /\ RerankCalled => (cohere_client /\ Len(Candidates) > 1)
    /\ rerank_ok = "skipped" => ~(cohere_client /\ Len(Candidates) > 1)

\* A finished request whose reranker put a later candidate before an earlier
\* one.
C12_Witness ==
    /\ rerank_ok = "ok"
    /\ q_pc = "done"
    /\ Len(Get(rerank_results)) = 2
    /\ Get(rerank_results)[1] > Get(rerank_results)[2]

\* The sequences of external calls of a request that keeps the stage order,
\* each service called at most once: the prefixes of embed, search, rerank,
\* generate, with the rerank step left out when the reranker is skipped.
OrderedCalls ==
    {<<>>, <<"embed">>, <<"embed", "search">>,
     <<"embed", "search", "rerank">>, <<"embed", "search", "generate">>,
     <<"embed", "search", "rerank", "generate">>}

\* C16: the stages of a request run in the order embed, search, rerank,
\* generate, assemble, each external service is called at most once, a stage
\* starts only when the one before it has completed, and when the embedding
\* or the search fails neither the reranker nor the generative model is
\* called and the request ends as a server error with no answer.
C16_StagesInOrder ==
    /\ calls \in OrderedCalls
    /\ GenerateCalled => (retrieval # None /\ Get(retrieval).documents # <<>>)
    /\ q_pc = "embedded" => calls = <<"embed">>
    /\ q_pc = "searched" => calls = <<"embed", "search">>
    /\ q_pc = "generated" => (GenerateCalled /\ llm_response # None)
    /\ q_pc = "done" =>
          /\ q_response # None
          /\ Get(q_response).status \in {200, 500}
          /\ Get(q_response).status = 500 =>
                /\ calls \in {<<"embed">>, <<"embed", "search">>}
                /\ DOMAIN Get(q_response) = {"status", "detail"}
                /\ retrieval = None
                /\ llm_response = None
          /\ Get(q_response).status = 200 =>
                /\ retrieval # None
                /\ Len(calls) >= 2
                /\ GenerateCalled <=> Get(retrieval).documents # <<>>

\* A request, with a reranker configured and several vectors in the index,
\* whose search failed.
C16_Witness ==
    /\ q_pc = "done"
    /\ Get(q_response).status = 500
    /\ calls = <<"embed", "search">>
    /\ cohere_client
    /\ corpus >= 2

(***************************************************************************)
(* Claims about the token and cost estimate, checked under SpecCost.       *)
(***************************************************************************)

\* C15: token counts are floor(character count / 4) for prompt and completion
\* independently and total_tokens is their sum; and with the prompt fixed, a
\* completion of twice the length, or of any greater length, never has a
\* smaller estimated_cost.
C15_CostMonotonic ==
    /\ \A i \in 1..Len(estimates) :
          LET e == estimates[i] IN
          /\ 4 * e.token_usage.prompt_tokens <= est_prompt
          /\ est_prompt < 4 * (e.token_usage.prompt_tokens + 1)
          /\ 4 * e.token_usage.completion_tokens <= e.response_len
          /\ e.response_len < 4 * (e.token_usage.completion_tokens + 1)
          /\ e.token_usage.total_tokens =
                e.token_usage.prompt_tokens + e.token_usage.completion_tokens
    /\ \A i, j \in 1..Len(estimates) :
          /\ estimates[j].response_len >= 2 * estimates[i].response_len =>
                estimates[j].estimated_cost >= estimates[i].estimated_cost
          /\ estimates[j].response_len >= estimates[i].response_len =>
                estimates[j].estimated_cost >= estimates[i].estimated_cost

\* Two estimates with one prompt, the second for a completion of twice the
\* length of the first, whose exact cost lies at a rounding tie.
C15_Witness ==
    /\ Len(estimates) = 2
    /\ estimates[1].response_len >= 4
    /\ estimates[2].response_len = 2 * estimates[1].response_len
    /\ CostNanos(estimates[1].token_usage) \in TiePoints(est_prompt)
    /\ estimates[2].estimated_cost > estimates[1].estimated_cost

(***************************************************************************)
(* Claims about _extract_citations, checked under SpecCite and SpecAnswer. *)
(***************************************************************************)

\* C8 (as claimed): no two citations of the result have the same index.
C8_CitationsDeduplicated ==
    cite_pc = "done" =>
        \A i, j \in 1..Len(Get(citations)) :
            i # j => Get(citations)[i].index # Get(citations)[j].index

\* The citations cs index into docs, carry the source and title of the
\* document they index, and are ordered by index.
CitationsIndexInto(cs, docs) ==
    /\ \A i \in 1..Len(cs) :
          /\ 1 <= cs[i].index /\ cs[i].index <= Len(docs)
          /\ cs[i].source = docs[cs[i].index].source
          /\ cs[i].title = docs[cs[i].index].title
    /\ \A i \in 1..(Len(cs) - 1) : cs[i].index <= cs[i + 1].index

\* The values of the markers of the answer s.
MarkerValues(s) == {ParseInt(ds) : ds \in FoundSet(s)}

\* C9: every citation has an index within the context list and carries the
\* source and title of the document at that index; markers outside the range
\* are dropped without an error; the list is ordered by index ascending; and
\* in a query response the citations index into the returned sources.
C9_CitationsInRangeSorted ==
    /\ cite_pc = "done" =>
          /\ citations # None
          /\ CitationsIndexInto(Get(citations), context_documents)
          /\ {Get(citations)[i].index : i \in 1..Len(Get(citations))}
                = {n \in MarkerValues(answer_text) :
                      1 <= n /\ n <= Len(context_documents)}
    /\ (q_pc = "done" /\ llm_response # None) =>
          /\ Get(q_response).status = 200
          /\ CitationsIndexInto(Get(q_response).citations, Get(q_response).sources)

\* An answer with markers inside and outside the range gave two or more
\* citations.
C9_Witness ==
    /\ cite_pc = "done"
    /\ Len(Get(citations)) >= 2
    /\ \E n \in MarkerValues(answer_text) : n = 0 \/ n > Len(context_documents)

====
